---- MODULE Spec2Model ----
(***************************************************************************)
(* Model of generate-json.js: the README is split into sections at H2      *)
(* headings, the month sections are parsed by the PEG parser, every parsed *)
(* document is projected to event records, the per-month arrays are        *)
(* reduced to one value and that value is printed.                          *)
(*                                                                         *)
(* Strings the code inspects character by character (the text, its lines,  *)
(* the titles) are sequences of one-character strings.                     *)
(***************************************************************************)
EXTENDS Integers, Sequences, FiniteSets, TLC

VARIABLES rawContent, pc, lines, i, sections, currentSection,
          filtered, sectionByMonth, thrown, jsonByMonth, json, stdout

vars == <<rawContent, pc, lines, i, sections, currentSection,
          filtered, sectionByMonth, thrown, jsonByMonth, json, stdout>>

(***************************************************************************)
(* Bounds of the model.                                                    *)
(***************************************************************************)
MaxTextLen == 4
MaxLines == 3
MaxEvents == 3
MaxColumn == 2
MaxLinks == 2

(***************************************************************************)
(* Characters.                                                             *)
(***************************************************************************)
CR == "\r"
LF == "\n"
Hash == "#"
Alphabet == {Hash, " ", "a", "1", LF, CR}

\* \s of a JavaScript regular expression (it also matches line terminators)
IsSpace(c) == c \in {" ", "\t", LF, CR}
IsDigit(c) == c \in {"0", "1", "2", "3", "4", "5", "6", "7", "8", "9"}
\* \w of a JavaScript regular expression
IsWord(c) == IsDigit(c) \/ c \in {"a", "b", "x", "A", "Z", "_"}

\* the value of a title that was never set from a heading
null == <<"null">>
\* the value of a variable that holds no object
undefined == [undefined |-> TRUE]

(***************************************************************************)
(* text.split(/\r\n|\r|\n/): the alternation tries \r\n first, so a CR LF  *)
(* pair is one separator.                                                  *)
(***************************************************************************)
RECURSIVE SplitFrom(_, _, _)
SplitFrom(text, pos, cur) ==
  IF pos > Len(text) THEN <<cur>>
  ELSE IF text[pos] = CR /\ pos + 1 <= Len(text) /\ text[pos + 1] = LF
       THEN <<cur>> \o SplitFrom(text, pos + 2, <<>>)
  ELSE IF text[pos] = CR \/ text[pos] = LF
       THEN <<cur>> \o SplitFrom(text, pos + 1, <<>>)
  ELSE SplitFrom(text, pos + 1, Append(cur, text[pos]))

SplitLines(text) == SplitFrom(text, 1, <<>>)

(***************************************************************************)
(* line.match(/^\s*##[^#]/): some number k of leading whitespace           *)
(* characters, two hashes, and one more character that is not a hash.      *)
(***************************************************************************)
HeadingAnyHashes(line) ==
  \E k \in 0..Len(line) :
    /\ \A j \in 1..k : IsSpace(line[j])
    /\ Len(line) >= k + 2
    /\ line[k + 1] = Hash
    /\ line[k + 2] = Hash

matchHeading(line) ==
  \E k \in 0..Len(line) :
    /\ \A j \in 1..k : IsSpace(line[j])
    /\ Len(line) >= k + 3
    /\ line[k + 1] = Hash
    /\ line[k + 2] = Hash
    /\ line[k + 3] # Hash

\* line.substr(2)
substr2(line) == SubSeq(line, 3, Len(line))

\* String.prototype.trim
RECURSIVE trimLeft(_)
trimLeft(s) ==
  IF s # <<>> /\ IsSpace(Head(s)) THEN trimLeft(Tail(s)) ELSE s

RECURSIVE trimRight(_)
trimRight(s) ==
  IF s # <<>> /\ IsSpace(s[Len(s)]) THEN trimRight(SubSeq(s, 1, Len(s) - 1)) ELSE s

trim(s) == trimRight(trimLeft(s))

headingTitle(line) == trim(substr2(line))

\* the section object a heading line creates (lines 75-79)
NewHeadingSection(line, idx) ==
  [title |-> headingTitle(line), startLine |-> idx + 1, text |-> line]

\* the section object the first lines of a text without heading create (lines 82-86)
NewInitialSection(line, idx) ==
  [title |-> null, startLine |-> idx + 1, text |-> line]

\* currentSection.text += '\n' + line
AppendLineNoNewline(text, line) == text \o line

AppendLine(text, line) == text \o <<LF>> \o line

(***************************************************************************)
(* section => /\w+\s*\d+/.test(section.title || '')                        *)
(***************************************************************************)
OrEmpty(title) == IF title = null \/ title = <<>> THEN <<>> ELSE title

\* a match of \w+\s*\d+ that starts at position p: a word characters,
\* b whitespace characters, c digits
MatchAt(s, p) ==
  \E a \in 1..Len(s), b \in 0..Len(s), c \in 1..Len(s) :
    /\ p + a + b + c - 1 <= Len(s)
    /\ \A j \in p..(p + a - 1) : IsWord(s[j])
    /\ \A j \in (p + a)..(p + a + b - 1) : IsSpace(s[j])
    /\ \A j \in (p + a + b)..(p + a + b + c - 1) : IsDigit(s[j])

MonthPatternAnchored(s) ==
  \E a \in 1..Len(s), b \in 0..Len(s), c \in 1..Len(s) :
    /\ a + b + c = Len(s)
    /\ \A j \in 1..a : IsWord(s[j])
    /\ \A j \in (a + 1)..(a + b) : IsSpace(s[j])
    /\ \A j \in (a + b + 1)..(a + b + c) : IsDigit(s[j])

monthPattern(s) == \E p \in 1..Len(s) : MatchAt(s, p)

isMonthSection(section) == monthPattern(OrEmpty(section.title))

(***************************************************************************)
(* Input texts.                                                            *)
(***************************************************************************)
SeqsUpTo(S, n) == UNION {[1..k -> S] : k \in 0..n}

RECURSIVE Join(_, _)
Join(ls, sep) ==
  IF ls = <<>> THEN <<>>
  ELSE IF Len(ls) = 1 THEN ls[1]
  ELSE ls[1] \o sep \o Join(Tail(ls), sep)

JoinLF(ls) == Join(ls, <<LF>>)

MonthHeading == <<Hash, Hash, "a", "1">>
OtherHeading == <<Hash, Hash, "a">>
BodyLine == <<"a">>

\* README texts of the pipeline: month sections, other sections, body lines
PipelineLines == {MonthHeading, OtherHeading, BodyLine}
PipelineTexts == {JoinLF(ls) : ls \in SeqsUpTo(PipelineLines, MaxLines)}

\* texts of the splitter: every short text over the alphabet, texts made of
\* heading-like lines, and texts whose lines end in CR LF or CR
SplitterLines ==
  { MonthHeading,
    <<Hash, Hash, " ", "a", " ", "1">>,
    <<" ", Hash, Hash, "a">>,
    <<" ", " ", Hash, Hash, " ", "a", "1">>,
    <<Hash, Hash, Hash, "a">>,
    <<Hash, "a">>,
    <<Hash, Hash>>,
    <<Hash, Hash, " ">>,
    OtherHeading,
    BodyLine,
    <<>> }
SplitterTexts ==
  SeqsUpTo(Alphabet, MaxTextLen)
    \cup {JoinLF(ls) : ls \in SeqsUpTo(SplitterLines, MaxLines)}
    \cup {Join(ls, sep) : ls \in SeqsUpTo({MonthHeading, BodyLine}, MaxLines),
                          sep \in {<<CR, LF>>, <<CR>>}}

(***************************************************************************)
(* State after the module's constants are set up and README.md is read     *)
(* (lines 42-46, 95).                                                      *)
(***************************************************************************)
Start(text) ==
  /\ rawContent = text
  /\ pc = "split"
  /\ lines = <<>>
  /\ i = 0
  /\ sections = <<>>
  /\ currentSection = 0
  /\ filtered = <<>>
  /\ sectionByMonth = <<>>
  /\ thrown = <<>>
  /\ jsonByMonth = <<>>
  /\ json = <<>>
  /\ stdout = <<>>

Init == \E text \in PipelineTexts : Start(text)

InitSplit == \E text \in SplitterTexts : Start(text)

(***************************************************************************)
(* splitSections (lines 68-93).  currentSection is the index in sections   *)
(* of the object the variable refers to, 0 while it is undefined.          *)
(***************************************************************************)
\* lines 69-71
SplitText ==
  /\ pc = "split"
  /\ lines' = SplitLines(rawContent)
  /\ i' = 0
  /\ sections' = <<>>
  /\ currentSection' = 0
  /\ pc' = "loop"
  /\ UNCHANGED <<rawContent, filtered, sectionByMonth, thrown, jsonByMonth, json, stdout>>

\* the body of the loop for line number idx (0-based), lines 73-90
loopBody(secs, cur, line, idx) ==
  IF matchHeading(line)
  THEN [sections |-> Append(secs, NewHeadingSection(line, idx)),
        currentSection |-> Len(secs) + 1]
  ELSE IF cur = 0
  THEN [sections |-> Append(secs, NewInitialSection(line, idx)),
        currentSection |-> Len(secs) + 1]
  ELSE [sections |-> [secs EXCEPT ![cur].text = AppendLine(@, line)],
        currentSection |-> cur]

\* one iteration of the loop, lines 72-91
SplitLine ==
  /\ pc = "loop"
  /\ i < Len(lines)
  /\ LET r == loopBody(sections, currentSection, lines[i + 1], i) IN
       /\ sections' = r.sections
       /\ currentSection' = r.currentSection
  /\ i' = i + 1
  /\ UNCHANGED <<rawContent, pc, lines, filtered, sectionByMonth, thrown,
                 jsonByMonth, json, stdout>>

\* the function as a whole: the value it returns for a text
splitSections(text) ==
  LET ls == SplitLines(text)
      RECURSIVE F(_, _)
      F(st, k) ==
        IF k >= Len(ls) THEN st.sections
        ELSE F(loopBody(st.sections, st.currentSection, ls[k + 1], k), k + 1)
  IN F([sections |-> <<>>, currentSection |-> 0], 0)

\* line 92: the loop is over, the sections are returned
SplitReturn ==
  /\ pc = "loop"
  /\ i >= Len(lines)
  /\ pc' = "filter"
  /\ UNCHANGED <<rawContent, lines, i, sections, currentSection, filtered,
                 sectionByMonth, thrown, jsonByMonth, json, stdout>>

\* line 98
filterMonths(ss) == SelectSeq(ss, isMonthSection)

FilterMonth ==
  /\ pc = "filter"
  /\ filtered' = filterMonths(sections)
  /\ pc' = "parse"
  /\ UNCHANGED <<rawContent, lines, i, sections, currentSection,
                 sectionByMonth, thrown, jsonByMonth, json, stdout>>

(***************************************************************************)
(* Parse trees.  A Document is {year, month, events}; a RawEvent is        *)
(* {header: {day: {from, to?}, title}, content: {topic, time, location,    *)
(* summary, description, website?, ticket?, rsvp?}}.  A field an object    *)
(* lacks is a field missing from the record.                               *)
(***************************************************************************)
BuyLink == [link |-> [title |-> "Buy", url |-> "http://x", price |-> "$10"]]
InfoLink == [link |-> [title |-> "Info", url |-> "http://y"]]
LinkEntries == {BuyLink, InfoLink}
LinkTables == SeqsUpTo(LinkEntries, MaxLinks)

EventTitles == <<"Meetup", "Conference", "Workshop", "Hackathon", "Barcamp", "Camp">>

BaseContent ==
  [topic |-> [categories |-> <<"Web">>, topics |-> <<"JavaScript">>],
   time |-> << [from |-> [hour |-> 18, minute |-> 30],
                to |-> [hour |-> 21, minute |-> 0],
                after |-> FALSE, agenda |-> "Talks"] >>,
   location |-> [title |-> "Hall", detail |-> "2F"],
   summary |-> "summary",
   description |-> "description"]

\* Object.assign(target, source): the fields of source over those of target
assign(target, source) ==
  [k \in DOMAIN target \cup DOMAIN source |->
     IF k \in DOMAIN source THEN source[k] ELSE target[k]]

\* the n-th event of a month: events of even number span two days
PoolEvent(n) ==
  [header |-> [day |-> IF n % 2 = 0 THEN [from |-> n, to |-> n + 1] ELSE [from |-> n],
               title |-> EventTitles[n]],
   content |-> IF n % 2 = 0 THEN assign(BaseContent, [website |-> <<InfoLink>>])
               ELSE BaseContent]

\* the documents the parser returns in the pipeline: 0..MaxEvents events
Docs ==
  {[year |-> 2024, month |-> "March", events |-> [k \in 1..n |-> PoolEvent(k)]] :
     n \in 0..MaxEvents}

\* a text cut at every LF
LinesOf(text) ==
  LET RECURSIVE F(_, _)
      F(pos, cur) ==
        IF pos > Len(text) THEN <<cur>>
        ELSE IF text[pos] = LF THEN <<cur>> \o F(pos + 1, <<>>)
        ELSE F(pos + 1, Append(cur, text[pos]))
  IN F(1, <<>>)

\* the syntax errors the parser can raise on a text: a position in the text
SyntaxErrors(text) ==
  {[message |-> "Expected day but found other.",
    expected |-> "day", found |-> "other",
    location |-> [start |-> [line |-> l, column |-> c]]] :
     l \in 1..Len(LinesOf(text)), c \in 1..MaxColumn}

\* parser.parse(text): returns a Document or throws a SyntaxError
parse(text) ==
  {[document |-> d] : d \in Docs} \cup {[syntaxError |-> e] : e \in SyntaxErrors(text)}

\* new ParseError(syntaxError), lines 48-66
NewParseError(syntaxError) ==
  [name |-> "ParseError",
   message |-> [line |-> syntaxError.location.start.line,
                column |-> syntaxError.location.start.column,
                detail |-> syntaxError.message],
   expected |-> syntaxError.expected,
   found |-> syntaxError.found,
   location |-> syntaxError.location]

\* the catch block, lines 102-104: the error is thrown again, nothing catches
\* it, the process ends
ContinueAfterParseError(syntaxError) ==
  /\ thrown' = Append(thrown, NewParseError(syntaxError))
  /\ pc' = "generate"
  /\ UNCHANGED sectionByMonth

ThrowParseError(syntaxError) ==
  /\ thrown' = Append(thrown, NewParseError(syntaxError))
  /\ pc' = "crashed"
  /\ UNCHANGED sectionByMonth

\* the map callback for the next section, lines 99-105
ParseSection ==
  /\ pc = "parse"
  /\ Len(sectionByMonth) < Len(filtered)
  /\ \E r \in parse(filtered[Len(sectionByMonth) + 1].text) :
       IF "document" \in DOMAIN r
       THEN /\ sectionByMonth' = Append(sectionByMonth, r.document)
            /\ UNCHANGED <<thrown, pc>>
       ELSE ThrowParseError(r.syntaxError)
  /\ UNCHANGED <<rawContent, lines, i, sections, currentSection, filtered,
                 jsonByMonth, json, stdout>>

\* line 105: every section is parsed, sectionByMonth is set
MapDone ==
  /\ pc = "parse"
  /\ Len(sectionByMonth) = Len(filtered)
  /\ pc' = "generate"
  /\ UNCHANGED <<rawContent, lines, i, sections, currentSection, filtered,
                 sectionByMonth, thrown, jsonByMonth, json, stdout>>

(***************************************************************************)
(* generateJSON and findLinks (lines 107-145).                             *)
(***************************************************************************)
\* Number to String, as a sequence of decimal digits
RECURSIVE DigitsOf(_)
DigitsOf(n) == IF n < 10 THEN <<n>> ELSE Append(DigitsOf(n \div 10), n % 10)

RECURSIVE ValueOf(_)
ValueOf(ds) ==
  IF ds = <<>> THEN 0 ELSE 10 * ValueOf(SubSeq(ds, 1, Len(ds) - 1)) + ds[Len(ds)]

\* parseInt(value, 10) of a non-negative integer: its decimal string is read back
parseInt10(n) == ValueOf(DigitsOf(n))

\* Object.assign({}, link, link.link, {type}); delete result.link (lines 141-143)
NormalizeLinkKeepWrapper(entry, type) ==
  assign(assign(entry, entry.link), [type |-> type])

normalizeLink(entry, type) ==
  LET result == assign(assign(entry, entry.link), [type |-> type])
  IN [k \in DOMAIN result \ {"link"} |-> result[k]]

\* content.website, content.ticket, content.rsvp with the (linkTable || [])
\* of line 140: a table the content lacks is the empty array
tableOrEmpty(content, type) == IF type \in DOMAIN content THEN content[type] ELSE <<>>

\* lines 139-145
findLinks(linkTable, type) ==
  [k \in 1..Len(linkTable) |-> normalizeLink(linkTable[k], type)]

\* if (header.day.to): an absent value and the number 0 are both falsy
truthyTo(day) == "to" \in DOMAIN day /\ day.to # 0

\* the callback of document.events.map, lines 108-136
projectEvent(document, event) ==
  LET header == event.header
      content == event.content
      year == parseInt10(document.year)
      month == document.month
  IN [start |-> [year |-> year, month |-> month, date |-> header.day.from],
      end |-> IF truthyTo(header.day)
              THEN [year |-> year, month |-> month, date |-> header.day.to]
              ELSE undefined,
      categories |-> content.topic.categories,
      topics |-> content.topic.topics,
      time |-> content.time,
      title |-> header.title,
      location |-> content.location,
      summary |-> content.summary,
      description |-> content.description,
      links |-> findLinks(tableOrEmpty(content, "website"), "website")
                  \o findLinks(tableOrEmpty(content, "ticket"), "ticket")
                  \o findLinks(tableOrEmpty(content, "rsvp"), "rsvp")]

generateJSON(document) ==
  [k \in 1..Len(document.events) |-> projectEvent(document, document.events[k])]

\* lines 147-149
GenerateAll ==
  /\ pc = "generate"
  /\ jsonByMonth' = [k \in 1..Len(sectionByMonth) |-> generateJSON(sectionByMonth[k])]
  /\ pc' = "reduce"
  /\ UNCHANGED <<rawContent, lines, i, sections, currentSection, filtered,
                 sectionByMonth, thrown, json, stdout>>

(***************************************************************************)
(* jsonByMonth.reduce((a, b) => [...a, b]) (line 151).  There is no        *)
(* initial value: the first array is the accumulator, an empty array       *)
(* throws a TypeError.  An array that is an element of an array is the     *)
(* record [array |-> its elements].                                        *)
(***************************************************************************)
ArrayElement(b) == [array |-> b]

\* (a, b) => [...a, b]
reducer(a, b) == Append(a, ArrayElement(b))

reduce(arrays) ==
  LET RECURSIVE F(_, _)
      F(acc, k) == IF k > Len(arrays) THEN acc ELSE F(reducer(acc, arrays[k]), k + 1)
  IN F(arrays[1], 2)

EmptyReduceError ==
  [name |-> "TypeError", message |-> "Reduce of empty array with no initial value"]

Reduce ==
  /\ pc = "reduce"
  /\ IF jsonByMonth = <<>>
     THEN /\ thrown' = Append(thrown, EmptyReduceError)
          /\ pc' = "crashed"
          /\ UNCHANGED json
     ELSE /\ json' = reduce(jsonByMonth)
          /\ pc' = "log"
          /\ UNCHANGED thrown
  /\ UNCHANGED <<rawContent, lines, i, sections, currentSection, filtered,
                 sectionByMonth, jsonByMonth, stdout>>

(***************************************************************************)
(* console.log(JSON.stringify(json, null, 2)) (line 153).  JSON.stringify  *)
(* leaves out the fields whose value is undefined.                         *)
(***************************************************************************)
stringifyEvent(event) ==
  IF event.end = undefined
  THEN [k \in DOMAIN event \ {"end"} |-> event[k]]
  ELSE event

\* the elements of json are events and, nested one level, arrays of events
stringify(value) ==
  [k \in 1..Len(value) |->
     IF "array" \in DOMAIN value[k]
     THEN [array |-> [j \in 1..Len(value[k].array) |-> stringifyEvent(value[k].array[j])]]
     ELSE stringifyEvent(value[k])]

ConsoleLog ==
  /\ pc = "log"
  /\ stdout' = Append(stdout, stringify(json))
  /\ pc' = "done"
  /\ UNCHANGED <<rawContent, lines, i, sections, currentSection, filtered,
                 sectionByMonth, thrown, jsonByMonth, json>>

Next ==
  \/ SplitText
  \/ SplitLine
  \/ SplitReturn
  \/ FilterMonth
  \/ ParseSection
  \/ MapDone
  \/ GenerateAll
  \/ Reduce
  \/ ConsoleLog

Spec == Init /\ [][Next]_vars

NextSplit == SplitText \/ SplitLine \/ SplitReturn \/ FilterMonth

SpecSplit == InitSplit /\ [][NextSplit]_vars

(***************************************************************************)
(* The projection alone: the state in which the one month section of a     *)
(* README has just been parsed, for every shape of event the data model    *)
(* has: a day range with and without end (the integer 0 included), each    *)
(* link table absent, empty or filled.                                     *)
(***************************************************************************)
DayRanges ==
  {[from |-> 5]} \cup {[from |-> 5, to |-> t] : t \in {0, 1, 12, 31}}

LinkFields == [{"website", "ticket", "rsvp"} -> LinkTables \cup {<<undefined>>}]

\* the content with the link tables of f, a table of f that is <<undefined>>
\* left out
ContentWith(f) ==
  LET present == {t \in DOMAIN f : f[t] # <<undefined>>}
  IN assign(BaseContent, [t \in present |-> f[t]])

ProjectEvents ==
  {[header |-> [day |-> d, title |-> "Launch"], content |-> ContentWith(f)] :
     d \in DayRanges, f \in LinkFields}

ProjectDocs ==
  {[year |-> 2024, month |-> "March", events |-> es] :
     es \in {<<e>> : e \in ProjectEvents} \cup {<<PoolEvent(2), e>> : e \in ProjectEvents}}

InitProject ==
  \E d \in ProjectDocs :
    /\ rawContent = MonthHeading
    /\ pc = "generate"
    /\ lines = SplitLines(MonthHeading)
    /\ i = 1
    /\ sections = splitSections(MonthHeading)
    /\ currentSection = 1
    /\ filtered = filterMonths(splitSections(MonthHeading))
    /\ sectionByMonth = <<d>>
    /\ thrown = <<>>
    /\ jsonByMonth = <<>>
    /\ json = <<>>
    /\ stdout = <<>>

NextProject == GenerateAll \/ Reduce \/ ConsoleLog

SpecProject == InitProject /\ [][NextProject]_vars

(***************************************************************************)
(* Notions the properties of the splitter and of the filter are stated     *)
(* with.                                                                   *)
(***************************************************************************)
\* the lines of all sections, in section order
AllSectionLines(ss) ==
  LET RECURSIVE F(_)
      F(k) == IF k > Len(ss) THEN <<>> ELSE LinesOf(ss[k].text) \o F(k + 1)
  IN F(1)

\* a text with every terminator (CR LF, CR, LF) written as LF
NormalizeTerminators(text) ==
  LET RECURSIVE F(_)
      F(pos) ==
        IF pos > Len(text) THEN <<>>
        ELSE IF text[pos] = CR
             THEN <<LF>> \o F(IF pos < Len(text) /\ text[pos + 1] = LF
                               THEN pos + 2 ELSE pos + 1)
        ELSE <<text[pos]>> \o F(pos + 1)
  IN F(1)

\* the number of whitespace characters a line starts with
LeadingSpaces(line) ==
  CHOOSE n \in 0..Len(line) :
    /\ \A j \in 1..n : line[j] \in {" ", "\t"}
    /\ n < Len(line) => line[n + 1] \notin {" ", "\t"}

\* optional leading whitespace, exactly two hashes, then a character that is
\* no hash
IsH2Line(line) ==
  LET n == LeadingSpaces(line) IN
    /\ Len(line) >= n + 3
    /\ line[n + 1] = Hash
    /\ line[n + 2] = Hash
    /\ line[n + 3] # Hash

\* a word character, then whitespace only, then a digit, somewhere in the title
HasMonthForm(title) ==
  \E p \in 1..Len(title), q \in 1..Len(title) :
    /\ p < q
    /\ IsWord(title[p])
    /\ IsDigit(title[q])
    /\ \A j \in (p + 1)..(q - 1) : title[j] \in {" ", "\t"}

\* the text of a heading line after its leading whitespace and the two hashes,
\* trimmed
TitleAfterMarker(line) ==
  LET body == trimLeft(line) IN trim(SubSeq(body, 3, Len(body)))

TitleOrEmpty(section) == IF section.title = null THEN <<>> ELSE section.title

Titled(ss) == {k \in 1..Len(ss) : ss[k].title # null}

\* C5: splitSections never fails, and at every point of its loop the lines of
\* the sections built so far, cut at LF and put together in section order, are
\* exactly the lines read so far; the lines are those of the text with its
\* terminators (LF, CR LF, CR) normalized; the loop ends with all lines read.
SplitPreservesLines ==
  pc # "split" =>
    /\ thrown = <<>>
    /\ JoinLF(lines) = NormalizeTerminators(rawContent)
    /\ AllSectionLines(sections) = SubSeq(lines, 1, i)
    /\ pc # "loop" => i = Len(lines)

SplitPreservesLinesWitness ==
  /\ pc = "filter"
  /\ Len(sections) >= 2
  /\ \E k \in 1..Len(sections) : Len(LinesOf(sections[k].text)) >= 2
  /\ \E p \in 1..(Len(rawContent) - 1) : rawContent[p] = CR /\ rawContent[p + 1] = LF

\* C6: a line opens a titled section iff it is optional whitespace, exactly
\* two hashes and a non-hash character: every titled section starts with such
\* a line, no other line of any section is one, only the first section can
\* have the null title, and there are as many titled sections as heading
\* lines read.
HeadingBoundary ==
  pc # "split" =>
    /\ \A k \in 1..Len(sections) :
         LET ls == LinesOf(sections[k].text) IN
           /\ (sections[k].title # null) <=> IsH2Line(ls[1])
           /\ \A j \in 2..Len(ls) : ~IsH2Line(ls[j])
           /\ sections[k].title = null => k = 1
    /\ Cardinality(Titled(sections))
         = Cardinality({j \in 1..i : IsH2Line(lines[j])})

HeadingBoundaryWitness ==
  /\ pc = "filter"
  /\ \E k \in 1..Len(sections) :
       /\ sections[k].title # null
       /\ LinesOf(sections[k].text)
            = <<MonthHeading, <<Hash, Hash, Hash, "a">>, <<Hash, Hash>> >>

\* C7: the month filter keeps, in their order, exactly the sections whose
\* title (null taken as empty) contains one or more word characters, optional
\* whitespace and one or more digits; dropping a section raises nothing.
MonthFilterKeeps ==
  pc = "parse" =>
    /\ filtered = SelectSeq(sections, LAMBDA s : HasMonthForm(TitleOrEmpty(s)))
    /\ thrown = <<>>

MonthFilterWitness ==
  /\ pc = "parse"
  /\ Len(sections) = 3
  /\ sections[1].title = null
  /\ sections[2].title = <<"a", " ", "1">>
  /\ sections[3].title = <<"a">>
  /\ Len(filtered) = 1
  /\ filtered[1] = sections[2]

\* C10: every titled section has as title the text of its heading line after
\* the ## marker, trimmed; its text starts with the heading line; its startLine
\* is the 1-based index of that line.
HeadingTitleAfterMarker ==
  pc # "split" =>
    \A k \in Titled(sections) :
      LET s == sections[k] IN
        /\ s.startLine \in 1..Len(lines)
        /\ LinesOf(s.text)[1] = lines[s.startLine]
        /\ s.title = TitleAfterMarker(lines[s.startLine])

(***************************************************************************)
(* Notions the properties of the driver and of the projector are stated    *)
(* with.                                                                   *)
(***************************************************************************)
RECURSIVE EventCount(_)
EventCount(docs) ==
  IF docs = <<>> THEN 0 ELSE Len(Head(docs).events) + EventCount(Tail(docs))

\* the Event records of all documents in one flat sequence: document order,
\* then event order
RECURSIVE FlatEvents(_)
FlatEvents(docs) ==
  IF docs = <<>> THEN <<>>
  ELSE [k \in 1..Len(Head(docs).events) |->
          stringifyEvent(projectEvent(Head(docs), Head(docs).events[k]))]
         \o FlatEvents(Tail(docs))

\* the section whose parse the map callback is at
SectionAtParse == filtered[Len(sectionByMonth) + 1]

ParseErrorThrown == thrown # <<>> /\ thrown[1].name = "ParseError"

\* C1: when all month sections parse, the output is one flat sequence of
\* Event records, as long as the sum of the documents' event counts, in
\* section order and then event order.
OutputIsFlatConcatenation ==
  pc = "done" =>
    /\ Len(stdout) = 1
    /\ Len(stdout[1]) = EventCount(sectionByMonth)
    /\ stdout[1] = FlatEvents(sectionByMonth)

\* C2: once a section has failed to parse there is exactly one ParseError,
\* raised for that section (the sections before it are parsed, its error is
\* one of that section's text), the run is over and nothing is printed.
FailFast ==
  ParseErrorThrown =>
    /\ Len(thrown) = 1
    /\ pc = "crashed"
    /\ stdout = <<>>
    /\ Len(sectionByMonth) < Len(filtered)
    /\ \E e \in SyntaxErrors(SectionAtParse.text) : thrown[1] = NewParseError(e)

FailFastWitness ==
  /\ ParseErrorThrown
  /\ Len(filtered) = 3
  /\ Len(sectionByMonth) = 1
  /\ Len(sectionByMonth[1].events) = 2

\* C3: a run ends either with the full event sequence printed and no error,
\* or with exactly one ParseError and nothing printed; the run of a text
\* without month section prints the empty sequence.
OnlyTwoOutcomes ==
  pc \in {"done", "crashed"} =>
    \/ /\ pc = "done"
       /\ thrown = <<>>
       /\ stdout = <<FlatEvents(sectionByMonth)>>
    \/ /\ pc = "crashed"
       /\ Len(thrown) = 1
       /\ thrown[1].name = "ParseError"
       /\ stdout = <<>>

\* C4: the absolute line of a parse failure is a function of the propagated
\* ParseError: every text whose first month section has the text of the
\* failing section (the parser sees nothing else, so it fails with the same
\* error) puts the failure on the same absolute line.
AbsoluteLineRecoverable ==
  ParseErrorThrown =>
    LET local == thrown[1].location.start.line
        absolute == SectionAtParse.startLine + local - 1
    IN \A text \in PipelineTexts :
         LET months == filterMonths(splitSections(text)) IN
           (months # <<>> /\ months[1].text = SectionAtParse.text)
             => months[1].startLine + local - 1 = absolute

LinkOf(entry, tag) ==
  IF "price" \in DOMAIN entry.link
  THEN [title |-> entry.link.title, url |-> entry.link.url,
        price |-> entry.link.price, type |-> tag]
  ELSE [title |-> entry.link.title, url |-> entry.link.url, type |-> tag]

LinksOfTable(content, tag) ==
  IF tag \in DOMAIN content
  THEN [k \in 1..Len(content[tag]) |-> LinkOf(content[tag][k], tag)]
  ELSE <<>>

\* C9: an event's links are those of its website table, then of its ticket
\* table, then of its rsvp table, each in its order and without
\* deduplication, an absent table giving none; each has the entry's title and
\* url, its price only when the entry has one, the table's tag as type, and no
\* link field.
LinksFlattened ==
  pc = "reduce" =>
    \A d \in 1..Len(sectionByMonth) :
      \A k \in 1..Len(sectionByMonth[d].events) :
        LET content == sectionByMonth[d].events[k].content
            links == jsonByMonth[d][k].links
        IN /\ links = LinksOfTable(content, "website")
                        \o LinksOfTable(content, "ticket")
                        \o LinksOfTable(content, "rsvp")
           /\ \A n \in 1..Len(links) : "link" \notin DOMAIN links[n]

LinksFlattenedWitness ==
  /\ pc = "reduce"
  /\ Len(sectionByMonth) = 1
  /\ LET content == sectionByMonth[1].events[1].content IN
       /\ "website" \in DOMAIN content /\ content.website = <<BuyLink, BuyLink>>
       /\ "ticket" \notin DOMAIN content
       /\ "rsvp" \in DOMAIN content /\ content.rsvp = <<InfoLink>>
  /\ Len(jsonByMonth[1][1].links) = 3

====
